---- MODULE Spec2Model ----
(***************************************************************************)
(* Model of BadNintendo/PixelGameDev:                                      *)
(*   - DevGameMaker, Entity, Player, Enemy, PowerUp (public/js/build.js)   *)
(*   - SpriteManager (public/js/builder.js and views/game-dev-hub.ejs)     *)
(*   - the relay: connections, movement, chat (app.js)                     *)
(*                                                                         *)
(* JavaScript runs one callback at a time, so a callback (key handler,     *)
(* frame callback, timer) is never interleaved with another one.  The      *)
(* frame callback gameLoop is split into its successive steps, tracked by  *)
(* pc; every other callback may only start while pc = "idle".              *)
(*                                                                         *)
(* Positions and velocities are kept in units of 1/Scale pixel, because    *)
(* gravity adds 0.5 pixel per frame; hitboxes are kept in pixels.          *)
(*                                                                         *)
(* build.js calls methods it does not define (Player.takeDamage,           *)
(* Player.setPosition, reset of entities and of the map, emit of an        *)
(* entity, getRenderingContext, createMap).  They are modelled as          *)
(* returning normally, with the effect their name and the specification    *)
(* give them; the only throw modelled is the dereference of a null         *)
(* currentMap in restartGame.                                              *)
(***************************************************************************)
EXTENDS Integers, Sequences, FiniteSets, TLC

---------------------------------------------------------------------------
(* Bounds of the model *)

MaxFrames == 3          \* frame callbacks that run a tick
MaxKeys == 2            \* keydown events delivered
MaxCell == 3            \* hitbox coordinates range over 0..MaxCell grid steps
GridStep == 8           \* pixels per grid step (hitbox sizes: 1 or 2 steps)
MaxSheet == 8           \* sprite sheet width / height in pixels
MaxTileExp == 2         \* tile sizes are 2^0 .. 2^MaxTileExp pixels
TimeStep == 2500        \* the clock advances by at most this many ms per step
MaxAdds == 2            \* addSprite calls
MaxItem == 4            \* getSprite is asked for items -1 .. MaxItem
ImageWidth == 4         \* width of the sprite sheet file in pixels
ImageHeight == 2        \* height of the sprite sheet file in pixels
MaxOns == 3             \* on calls
MaxUpdates == 3         \* update calls on the entity
MaxSpeed == 8           \* a speed in pixels per frame given to an entity
MaxConnections == 2     \* sockets that connect to the relay
MaxChats == 2           \* playerChat events received by the relay
ChatStep == 10000       \* the relay clock advances by at most this many ms per step

---------------------------------------------------------------------------
(* Program constants *)

Scale == 2              \* position units per pixel (gravity is 0.5 pixel)
CanvasWidth == 640
PlayerStartX == 50
PlayerStartY == 100
HitboxSize == 16
InitialLives == 3
MoveSpeed == 5
JumpSpeed == 10
InvincibilityMs == 5000
ChatClearMs == 30000

NullMap == "null"
KeyCodes == {"ArrowLeft", "ArrowRight", "Space", "KeyF", "Escape", "KeyR"}
PowerUpTypes == {"speed", "invincibility"}

VARIABLES
    \* DevGameMaker
    enemies, powerUps, player, currentMap, playerLives, isPaused, score,
    \* host scheduling
    rafPending,         \* frame callbacks registered with requestAnimationFrame
    timers,             \* pending invincibility timeouts: delay and elapsed ms
    pc, idx,            \* position inside the running frame callback
    frames,             \* ticks executed
    keys,               \* keydown events delivered
    event,              \* the callback being (or last) run: key code, "frame", ...
    trace,              \* notifications emitted by that callback
    \* isCollideWith on a pair of entities
    boxA, boxB,         \* the hitboxes of entities a and b
    called,             \* whether the two calls below have been made
    hitAB, hitBA,       \* results of a.isCollideWith(b), b.isCollideWith(a)
    \* SpriteManager: one registered sprite sheet
    sheet,              \* <<image width, image height, tile width, tile height>>
    itemsHub, loadedHub,          \* game-dev-hub.ejs: items, and whether onload ran
    itemsBuilder, loadedBuilder,  \* builder.js: items, and whether onload ran
    \* SpriteManager: the catalog of registered sprite types
    manager,            \* which SpriteManager is running: "hub" or "builder"
    sprites,            \* this.sprites: type -> registration object
    loads,              \* the images created by addSprite, and their state
    adds,               \* addSprite calls made
    request, result,    \* the last getSprite call and what it returned
    \* DevGameMaker as an event emitter
    eventListeners,     \* this.eventListeners: event name -> array of callbacks
    onCalls,            \* the on calls made so far: event and callback
    emitted,            \* the emit call being made, if the last call was an emit
    calls,              \* the callbacks invoked by the last call, in order
    busThrew,           \* whether the last call threw a TypeError
    \* one entity and its update steps
    entKind,            \* its class: "Entity" (Enemy, PowerUp alike) or "Player"
    ent,                \* its fields
    updates,            \* update calls made
    \* the relay (app.js)
    relayUp,            \* the Node process runs (no uncaught exception so far)
    connected,          \* ids of the sockets that are connected
    players,            \* players: socket id -> player object
    connectionCount,
    chatTimers,         \* pending chat timeouts: socket id and elapsed ms
    chatPeers,          \* for each pending timeout, the sockets its message went to
    chats,              \* playerChat events received
    sent                \* what the last handler emitted: event, receivers, payload

gameVars == <<enemies, powerUps, player, currentMap, playerLives, isPaused, score,
              rafPending, timers, pc, idx, frames, keys, event, trace>>
boxVars == <<boxA, boxB, called, hitAB, hitBA>>
sheetVars == <<sheet, itemsHub, loadedHub, itemsBuilder, loadedBuilder>>
catalogVars == <<manager, sprites, loads, adds, request, result>>
busVars == <<eventListeners, onCalls, emitted, calls, busThrew>>
entityVars == <<entKind, ent, updates>>
relayVars == <<relayUp, connected, players, connectionCount, chatTimers,
               chatPeers, chats, sent>>
addedVars == <<catalogVars, busVars, entityVars, relayVars>>
vars == <<gameVars, boxVars, sheetVars, addedVars>>

---------------------------------------------------------------------------
(* Entity *)

\* Entity.constructor: pos in 1/Scale pixels, hitbox in pixels
Entity(x, y) ==
    [pos |-> <<Scale * x, Scale * y>>,
     vel |-> <<0, 0>>,
     hitbox |-> <<x, y, HitboxSize, HitboxSize>>,
     dying |-> FALSE]

\* A plausible slip: only the left edge is clamped.
checkBounds_leftOnly(e) ==
    IF e.pos[1] < 0 THEN [e EXCEPT !.pos[1] = 0] ELSE e

\* Entity.checkBounds
checkBounds(e) ==
    IF e.pos[1] < 0
    THEN [e EXCEPT !.pos[1] = 0]
    ELSE IF e.pos[1] > Scale * (CanvasWidth - e.hitbox[3])
         THEN [e EXCEPT !.pos[1] = Scale * (CanvasWidth - e.hitbox[3])]
         ELSE e

\* Entity.update
EntityUpdate(e) ==
    checkBounds([e EXCEPT !.pos = <<e.pos[1] + e.vel[1], e.pos[2] + e.vel[2]>>])

\* A plausible slip: the x-axis test of only one side is kept.
isCollideWith_oneSided(a, b) ==
    ~( a[1] > b[1] + b[3]
       \/ a[2] > b[2] + b[4] \/ a[2] + a[4] < b[2] )

\* Entity.isCollideWith, on the two hitboxes
isCollideWith(a, b) ==
    ~( a[1] > b[1] + b[3] \/ a[1] + a[3] < b[1]
       \/ a[2] > b[2] + b[4] \/ a[2] + a[4] < b[2] )

\* Entity.destroy: the "destroyed" notification goes to the entity's observers
EntityDestroy(e) == [e EXCEPT !.dying = TRUE]

\* Entity.reset (not defined in build.js): back to the constructed state
EntityReset(e) ==
    [e EXCEPT !.pos = <<Scale * e.hitbox[1], Scale * e.hitbox[2]>>,
              !.vel = <<0, 0>>,
              !.dying = FALSE]

---------------------------------------------------------------------------
(* Player, Enemy, PowerUp *)

Player(x, y) == [pos |-> <<Scale * x, Scale * y>>,
                 vel |-> <<0, 0>>,
                 hitbox |-> <<x, y, HitboxSize, HitboxSize>>,
                 dying |-> FALSE,
                 invincibility |-> FALSE]

Enemy(x, y) == Entity(x, y)

PowerUp(x, y, type) ==
    [pos |-> <<Scale * x, Scale * y>>,
     vel |-> <<0, 0>>,
     hitbox |-> <<x, y, HitboxSize, HitboxSize>>,
     dying |-> FALSE,
     type |-> type]

moveLeft(p) == [p EXCEPT !.vel[1] = -(Scale * MoveSpeed)]
moveRight(p) == [p EXCEPT !.vel[1] = Scale * MoveSpeed]
jump(p) == [p EXCEPT !.vel[2] = -(Scale * JumpSpeed)]

\* A plausible slip: gravity is applied, the horizontal velocity is kept.
PlayerUpdate_noReset(p) ==
    LET q == EntityUpdate(p)
    IN [q EXCEPT !.vel = <<q.vel[1], q.vel[2] + 1>>]

\* Player.update: Entity.update, gravity of 0.5 pixel, horizontal velocity reset
PlayerUpdate(p) ==
    LET q == EntityUpdate(p)
    IN [q EXCEPT !.vel = <<0, q.vel[2] + 1>>]

\* Player.setPosition (not defined in build.js): moves the position
setPosition(p, x, y) == [p EXCEPT !.pos = <<Scale * x, Scale * y>>]

\* Player.takeDamage (not defined in build.js): health is not modelled
takeDamage(p) == p

\* setTimeout(..., 5000) of PowerUp.activate, as a pending host timer
InvincibilityTimer == [delay |-> InvincibilityMs, elapsed |-> 0]

\* A plausible slip: the flag is set but no timeout is registered.
activate_noTimeout(pu, st) ==
    IF pu.type = "invincibility"
    THEN [st EXCEPT !.player.invincibility = TRUE]
    ELSE st

\* PowerUp.activate on st = [player, timers]
activate(pu, st) ==
    IF pu.type = "invincibility"
    THEN [st EXCEPT !.player.invincibility = TRUE,
                    !.timers = Append(@, InvincibilityTimer)]
    ELSE st

---------------------------------------------------------------------------
(* DevGameMaker *)

\* DevGameMaker.emit: the notification reaches the registered listeners
emit(g, name) == [g EXCEPT !.trace = Append(@, name)]

\* The fields of the controller that its methods read and write.
Game ==
    [enemies |-> enemies, powerUps |-> powerUps, player |-> player,
     currentMap |-> currentMap, playerLives |-> playerLives,
     isPaused |-> isPaused, score |-> score, trace |-> trace, threw |-> FALSE]

\* DevGameMaker.restartGame; currentMap.reset() on null throws a TypeError
restartGame(g) ==
    LET g1 == [g EXCEPT !.playerLives = InitialLives,
                        !.score = 0,
                        !.player = setPosition(@, PlayerStartX, PlayerStartY),
                        !.enemies = [i \in DOMAIN @ |-> EntityReset(@[i])],
                        !.powerUps = [i \in DOMAIN @ |-> EntityReset(@[i])]]
    IN IF g1.currentMap = NullMap
       THEN [g1 EXCEPT !.threw = TRUE]
       ELSE emit([g1 EXCEPT !.isPaused = FALSE], "gameRestarted")

\* DevGameMaker.togglePause
togglePause(g) == emit([g EXCEPT !.isPaused = ~@], "pauseToggled")

\* The test of DevGameMaker.checkPlayerCollisionWithEnemy
PlayerHitBy(p, enemy) ==
    isCollideWith(p.hitbox, enemy.hitbox) /\ ~enemy.dying /\ ~p.invincibility

\* Where the frame callback goes after the enemy at index i / after all enemies
AfterEnemy(i) ==
    IF i < Len(enemies) THEN <<"enemy", i + 1>>
    ELSE IF Len(powerUps) > 0 THEN <<"powerUp", 1>>
    ELSE <<"render", 0>>

AfterPowerUp(i) ==
    IF i < Len(powerUps) THEN <<"powerUp", i + 1>> ELSE <<"render", 0>>

Install(g) ==
    /\ enemies' = g.enemies
    /\ powerUps' = g.powerUps
    /\ player' = g.player
    /\ currentMap' = g.currentMap
    /\ playerLives' = g.playerLives
    /\ isPaused' = g.isPaused
    /\ score' = g.score
    /\ trace' = g.trace

\* DevGameMaker.handleKeyPress, the keydown listener
KeyEffect(g, code) ==
    IF g.isPaused THEN g
    ELSE CASE code = "ArrowLeft" -> [g EXCEPT !.player = moveLeft(@)]
           [] code = "ArrowRight" -> [g EXCEPT !.player = moveRight(@)]
           [] code = "Space" -> [g EXCEPT !.player = jump(@)]
           [] code = "Escape" -> togglePause(g)
           [] code = "KeyR" -> restartGame(g)
           [] OTHER -> g

handleKeyPress ==
    /\ pc = "idle"
    /\ \E code \in KeyCodes :
         /\ event' = code
         /\ Install(KeyEffect([Game EXCEPT !.trace = <<>>], code))
    /\ keys < MaxKeys
    /\ keys' = keys + 1
    /\ UNCHANGED <<rafPending, timers, pc, idx, frames>>
    /\ UNCHANGED <<boxVars, sheetVars, addedVars>>

\* A plausible slip: the frame callback runs the tick even while paused.
gameLoop_noPauseGuard ==
    /\ pc = "idle"
    /\ rafPending = 1
    /\ frames < MaxFrames
    /\ rafPending' = 0
    /\ event' = "frame"
    /\ trace' = <<>>
    /\ frames' = frames + 1
    /\ enemies' = [i \in DOMAIN enemies |-> EntityUpdate(enemies[i])]
    /\ powerUps' = [i \in DOMAIN powerUps |-> EntityUpdate(powerUps[i])]
    /\ player' = PlayerUpdate(player)
    /\ pc' = AfterEnemy(0)[1]
    /\ idx' = AfterEnemy(0)[2]
    /\ UNCHANGED <<currentMap, playerLives, isPaused, score, timers, keys>>
    /\ UNCHANGED <<boxVars, sheetVars, addedVars>>

\* DevGameMaker.gameLoop up to and including updateEntities
gameLoop ==
    /\ pc = "idle"
    /\ rafPending = 1
    /\ isPaused \/ frames < MaxFrames
    /\ rafPending' = 0
    /\ event' = "frame"
    /\ trace' = <<>>
    /\ IF isPaused
       THEN UNCHANGED <<enemies, powerUps, player, pc, idx, frames>>
       ELSE /\ frames' = frames + 1
            /\ enemies' = [i \in DOMAIN enemies |-> EntityUpdate(enemies[i])]
            /\ powerUps' = [i \in DOMAIN powerUps |-> EntityUpdate(powerUps[i])]
            /\ player' = PlayerUpdate(player)
            /\ pc' = AfterEnemy(0)[1]
            /\ idx' = AfterEnemy(0)[2]
    /\ UNCHANGED <<currentMap, playerLives, isPaused, score, timers, keys>>
    /\ UNCHANGED <<boxVars, sheetVars, addedVars>>

\* DevGameMaker.checkPlayerCollisionWithEnemy up to the lives test
EnemyCheck(g, enemy) ==
    IF PlayerHitBy(g.player, enemy)
    THEN [emit(g, "playerHit") EXCEPT !.player = takeDamage(@),
                                      !.playerLives = @ - 1]
    ELSE g

checkPlayerCollisionWithEnemy ==
    /\ pc = "enemy"
    /\ LET g == EnemyCheck(Game, enemies[idx])
       IN /\ Install(g)
          /\ IF PlayerHitBy(player, enemies[idx]) /\ g.playerLives <= 0
             THEN pc' = "gameOver" /\ idx' = idx
             ELSE pc' = AfterEnemy(idx)[1] /\ idx' = AfterEnemy(idx)[2]
    /\ UNCHANGED <<rafPending, timers, frames, keys, event>>
    /\ UNCHANGED <<boxVars, sheetVars, addedVars>>

\* ... and its game-over branch; a throw of restartGame ends the frame callback
gameOver ==
    /\ pc = "gameOver"
    /\ LET g == restartGame(emit(Game, "gameOver"))
       IN /\ Install(g)
          /\ IF g.threw
             THEN pc' = "idle" /\ idx' = 0
             ELSE pc' = AfterEnemy(idx)[1] /\ idx' = AfterEnemy(idx)[2]
    /\ UNCHANGED <<rafPending, timers, frames, keys, event>>
    /\ UNCHANGED <<boxVars, sheetVars, addedVars>>

\* DevGameMaker.checkPlayerCollisionWithPowerUp
checkPlayerCollisionWithPowerUp ==
    /\ pc = "powerUp"
    /\ IF isCollideWith(player.hitbox, powerUps[idx].hitbox)
       THEN LET st == activate(powerUps[idx], [player |-> player, timers |-> timers])
            IN /\ trace' = trace \o <<"playerPowerUp", "destroyed">>
               /\ player' = st.player
               /\ timers' = st.timers
               /\ powerUps' = [powerUps EXCEPT ![idx] = EntityDestroy(@)]
       ELSE UNCHANGED <<trace, player, timers, powerUps>>
    /\ pc' = AfterPowerUp(idx)[1]
    /\ idx' = AfterPowerUp(idx)[2]
    /\ UNCHANGED <<enemies, currentMap, playerLives, isPaused, score,
                   rafPending, frames, keys, event>>
    /\ UNCHANGED <<boxVars, sheetVars, addedVars>>

\* DevGameMaker.renderEntities: draws, changes no game state
renderEntities ==
    /\ pc = "render"
    /\ pc' = "cleanup"
    /\ UNCHANGED <<enemies, powerUps, player, currentMap, playerLives, isPaused,
                   score, rafPending, timers, idx, frames, keys, event, trace>>
    /\ UNCHANGED <<boxVars, sheetVars, addedVars>>

\* The isDestroyed field read by cleanup: nothing ever sets it
isDestroyed(e) == FALSE

\* DevGameMaker.cleanup
cleanup ==
    /\ pc = "cleanup"
    /\ enemies' = SelectSeq(enemies, LAMBDA e : ~isDestroyed(e))
    /\ powerUps' = SelectSeq(powerUps, LAMBDA e : ~isDestroyed(e))
    /\ pc' = "schedule"
    /\ UNCHANGED <<player, currentMap, playerLives, isPaused, score,
                   rafPending, timers, idx, frames, keys, event, trace>>
    /\ UNCHANGED <<boxVars, sheetVars, addedVars>>

\* The requestAnimationFrame call that ends gameLoop
scheduleNextFrame ==
    /\ pc = "schedule"
    /\ rafPending' = 1
    /\ pc' = "idle"
    /\ UNCHANGED <<enemies, powerUps, player, currentMap, playerLives, isPaused,
                   score, timers, idx, frames, keys, event, trace>>
    /\ UNCHANGED <<boxVars, sheetVars, addedVars>>

---------------------------------------------------------------------------
(* Host: timers, clock, and the code that owns the game object *)

\* The timeout callback of PowerUp.activate; timers of equal delay fire in order
invincibilityTimeout ==
    /\ pc = "idle"
    /\ timers # <<>>
    /\ timers[1].elapsed = timers[1].delay
    /\ player' = [player EXCEPT !.invincibility = FALSE]
    /\ timers' = Tail(timers)
    /\ event' = "timeout"
    /\ trace' = <<>>
    /\ UNCHANGED <<enemies, powerUps, currentMap, playerLives, isPaused, score,
                   rafPending, pc, idx, frames, keys>>
    /\ UNCHANGED <<boxVars, sheetVars, addedVars>>

\* Time left until the first pending timer is due
RECURSIVE MinLeft(_)
MinLeft(ts) ==
    IF Len(ts) = 1 THEN ts[1].delay - ts[1].elapsed
    ELSE LET m == MinLeft(Tail(ts))
             d == ts[1].delay - ts[1].elapsed
         IN IF d < m THEN d ELSE m

\* Time passes, never beyond the moment a pending timer is due
advanceTime ==
    /\ pc = "idle"
    /\ timers # <<>>
    /\ MinLeft(timers) > 0
    /\ LET d == IF MinLeft(timers) < TimeStep THEN MinLeft(timers) ELSE TimeStep
       IN timers' = [i \in DOMAIN timers |-> [timers[i] EXCEPT !.elapsed = @ + d]]
    /\ UNCHANGED <<enemies, powerUps, player, currentMap, playerLives, isPaused,
                   score, rafPending, pc, idx, frames, keys, event, trace>>
    /\ UNCHANGED <<boxVars, sheetVars, addedVars>>

\* The host prepares the level right after constructing the game, before any
\* callback runs
Setup == pc = "idle" /\ event = "none"

\* Places where the host puts entities: on the player, touching the right
\* edge of its hitbox, and away from it
OnPlayer == <<PlayerStartX, PlayerStartY>>
AtEdge == <<PlayerStartX + HitboxSize, PlayerStartY>>
Away == <<PlayerStartX + 2 * HitboxSize + GridStep, PlayerStartY>>

EnemyAt(p) == Enemy(p[1], p[2])
PowerUpAt(p, type) == PowerUp(p[1], p[2], type)

\* The levels the host builds: what it pushes into game.enemies and
\* game.powerUps (an enemy may already have been destroyed by the host)
Levels ==
    { [enemies |-> <<EnemyAt(OnPlayer)>>,
       powerUps |-> <<>>],
      [enemies |-> <<EnemyAt(AtEdge)>>,
       powerUps |-> <<PowerUpAt(Away, "invincibility")>>],
      [enemies |-> <<EnemyAt(OnPlayer), EnemyAt(Away)>>,
       powerUps |-> <<PowerUpAt(OnPlayer, "invincibility")>>],
      [enemies |-> <<EntityDestroy(EnemyAt(OnPlayer)), EnemyAt(OnPlayer)>>,
       powerUps |-> <<PowerUpAt(OnPlayer, "speed"), PowerUpAt(OnPlayer, "invincibility")>>],
      [enemies |-> <<>>,
       powerUps |-> <<PowerUpAt(OnPlayer, "invincibility")>>] }

setupLevel ==
    /\ Setup
    /\ enemies = <<>>
    /\ powerUps = <<>>
    /\ \E level \in Levels :
         /\ enemies' = level.enemies
         /\ powerUps' = level.powerUps
    /\ UNCHANGED <<player, currentMap, playerLives, isPaused, score,
                   rafPending, timers, pc, idx, frames, keys, event, trace>>
    /\ UNCHANGED <<boxVars, sheetVars, addedVars>>

\* game.createMap / game.renderMap (called at the end of build.js, not
\* defined there): the game gets a current map
createMap ==
    /\ Setup
    /\ currentMap = NullMap
    /\ currentMap' = "Level1"
    /\ UNCHANGED <<enemies, powerUps, player, playerLives, isPaused, score,
                   rafPending, timers, pc, idx, frames, keys, event, trace>>
    /\ UNCHANGED <<boxVars, sheetVars, addedVars>>

\* DevGameMaker.constructor and init
GameInit ==
    /\ enemies = <<>>
    /\ powerUps = <<>>
    /\ player = Player(PlayerStartX, PlayerStartY)
    /\ currentMap = NullMap
    /\ playerLives = InitialLives
    /\ isPaused = FALSE
    /\ score = 0
    /\ rafPending = 1
    /\ timers = <<>>
    /\ pc = "idle"
    /\ idx = 0
    /\ frames = 0
    /\ keys = 0
    /\ event = "none"
    /\ trace = <<>>

BoxIdle == /\ boxA = <<0, 0, GridStep, GridStep>> /\ boxB = boxA
           /\ called = FALSE /\ hitAB = FALSE /\ hitBA = FALSE
SheetIdle == /\ sheet = <<1, 1, 1, 1>>
             /\ itemsHub = <<>> /\ loadedHub = FALSE
             /\ itemsBuilder = <<>> /\ loadedBuilder = FALSE

\* No getSprite call to make, none made yet
NoRequest == [type |-> "", item |-> 0, color |-> <<>>]
NoResult == [kind |-> "none"]
CatalogIdle == /\ manager = "hub" /\ sprites = <<>> /\ loads = {} /\ adds = 0
               /\ request = NoRequest /\ result = NoResult
\* The last call was no emit
NoEmit == [name |-> "", args |-> <<>>]
BusIdle == /\ eventListeners = <<>> /\ onCalls = <<>> /\ emitted = NoEmit
           /\ calls = <<>> /\ busThrew = FALSE
EntityIdle == /\ entKind = "Entity" /\ ent = Entity(0, 0) /\ updates = 0
RelayIdle == /\ relayUp = TRUE /\ connected = {} /\ players = <<>>
             /\ connectionCount = 0 /\ chatTimers = <<>> /\ chatPeers = <<>>
             /\ chats = 0 /\ sent = <<>>
AddedIdle == CatalogIdle /\ BusIdle /\ EntityIdle /\ RelayIdle

Init == GameInit /\ BoxIdle /\ SheetIdle /\ AddedIdle

Next ==
    \/ handleKeyPress
    \/ gameLoop
    \/ checkPlayerCollisionWithEnemy
    \/ gameOver
    \/ checkPlayerCollisionWithPowerUp
    \/ renderEntities
    \/ cleanup
    \/ scheduleNextFrame
    \/ invincibilityTimeout
    \/ advanceTime
    \/ setupLevel
    \/ createMap

Spec == Init /\ [][Next]_vars

---------------------------------------------------------------------------
(* Pausing and resuming on an empty level.  The page owns the game object  *)
(* and may call its methods togglePause and restartGame itself, between    *)
(* callbacks; these calls count among the inputs bounded by MaxKeys.       *)

\* game.togglePause() called by the page
callTogglePause ==
    /\ pc = "idle"
    /\ keys < MaxKeys
    /\ keys' = keys + 1
    /\ event' = "togglePause"
    /\ Install(togglePause([Game EXCEPT !.trace = <<>>]))
    /\ UNCHANGED <<rafPending, timers, pc, idx, frames>>
    /\ UNCHANGED <<boxVars, sheetVars, addedVars>>

\* game.restartGame() called by the page
callRestartGame ==
    /\ pc = "idle"
    /\ keys < MaxKeys
    /\ keys' = keys + 1
    /\ event' = "restartGame"
    /\ Install(restartGame([Game EXCEPT !.trace = <<>>]))
    /\ UNCHANGED <<rafPending, timers, pc, idx, frames>>
    /\ UNCHANGED <<boxVars, sheetVars, addedVars>>

NextPause ==
    \/ handleKeyPress
    \/ callTogglePause
    \/ callRestartGame
    \/ gameLoop
    \/ renderEntities
    \/ cleanup
    \/ scheduleNextFrame
    \/ createMap

SpecPause == Init /\ [][NextPause]_vars

---------------------------------------------------------------------------
(* isCollideWith on arbitrary pairs of hitboxes *)

Coords == {i * GridStep : i \in 0..MaxCell}
Sizes == {GridStep, 2 * GridStep}
Boxes == {<<x, y, w, h>> : x \in Coords, y \in Coords, w \in Sizes, h \in Sizes}

\* a.isCollideWith(b) and b.isCollideWith(a)
callIsCollideWith ==
    /\ ~called
    /\ called' = TRUE
    /\ hitAB' = isCollideWith(boxA, boxB)
    /\ hitBA' = isCollideWith(boxB, boxA)
    /\ UNCHANGED <<boxA, boxB, gameVars, sheetVars, addedVars>>

InitCollide ==
    /\ boxA \in Boxes
    /\ boxB \in Boxes
    /\ called = FALSE
    /\ hitAB = FALSE
    /\ hitBA = FALSE
    /\ GameInit
    /\ SheetIdle
    /\ AddedIdle

NextCollide == callIsCollideWith

SpecCollide == InitCollide /\ [][NextCollide]_vars

---------------------------------------------------------------------------
(* SpriteManager: the tile grid computed when the image has loaded.        *)
(* Tile sizes are powers of two, so that the divisions of builder.js are   *)
(* exact in floating point and the integer formulas below are what the     *)
(* code computes.                                                          *)

RECURSIVE Pow2(_)
Pow2(k) == IF k = 0 THEN 1 ELSE 2 * Pow2(k - 1)

SheetSizes == 1..MaxSheet
TileSizes == {Pow2(k) : k \in 0..MaxTileExp}

\* img.onload of game-dev-hub.ejs _loadSpriteImage
HubItems(W, H, tw, th) ==
    LET cols == W \div tw
        rows == H \div th
        totalItems == rows * cols
    IN [k \in 1..totalItems |->
          [index |-> k - 1, x |-> ((k - 1) % cols) * tw, y |-> ((k - 1) \div cols) * th]]

\* img.onload of builder.js _createItems: no rounding of width / spriteWidth.
\* i < (W/tw)*(H/th) iff i*tw*th < W*H;  (i % (W/tw))*tw = (i*tw) % W;
\* floor(i / (W/tw)) = (i*tw) \div W.
BuilderItems(W, H, tw, th) ==
    LET totalItems == (W * H + tw * th - 1) \div (tw * th)
    IN [k \in 1..totalItems |->
          [index |-> k - 1, x |-> ((k - 1) * tw) % W, y |-> (((k - 1) * tw) \div W) * th]]

onloadHub ==
    /\ ~loadedHub
    /\ loadedHub' = TRUE
    /\ itemsHub' = itemsHub \o HubItems(sheet[1], sheet[2], sheet[3], sheet[4])
    /\ UNCHANGED <<sheet, itemsBuilder, loadedBuilder, gameVars, boxVars, addedVars>>

onloadBuilder ==
    /\ ~loadedBuilder
    /\ loadedBuilder' = TRUE
    /\ itemsBuilder' = itemsBuilder \o BuilderItems(sheet[1], sheet[2], sheet[3], sheet[4])
    /\ UNCHANGED <<sheet, itemsHub, loadedHub, gameVars, boxVars, addedVars>>

\* addSprite(type, path, tw, th) on an image of W by H pixels
InitTiles ==
    /\ sheet \in SheetSizes \X SheetSizes \X TileSizes \X TileSizes
    /\ itemsHub = <<>> /\ loadedHub = FALSE
    /\ itemsBuilder = <<>> /\ loadedBuilder = FALSE
    /\ GameInit
    /\ BoxIdle
    /\ AddedIdle

NextTiles == onloadHub \/ onloadBuilder

SpecTiles == InitTiles /\ [][NextTiles]_vars

---------------------------------------------------------------------------
(* SpriteManager: the catalog of registered types and getSprite.           *)
(* One of the two SpriteManagers runs, chosen at the start.  Every         *)
(* addSprite creates a new registration object and a new Image; reg        *)
(* numbers the calls, so that it identifies the object and the image.      *)
(* An optional value (request.color, descriptor.position) is a sequence    *)
(* of length 0 (undefined) or 1.  getSprite changes nothing, so one call   *)
(* is followed, made at any moment of the life of the catalog.             *)

SpriteTypes == {"grass", "floor"}
\* Properties every object inherits from Object.prototype, so that
\* this.sprites[name] is defined although name was never registered
InheritedNames == {"constructor"}
\* The image files: one sheet of ImageWidth by ImageHeight pixels, and a
\* path where no file is
ImagePaths == {"sheet.png", "missing.png"}
SpriteWidths == {1, 2}
SpriteHeights == {2}
Requests == [type : SpriteTypes \cup InheritedNames,
             item : -1..MaxItem,
             color : {<<>>, <<"red">>}]

\* The object addSprite stores in this.sprites[type], in both managers
Registration(imagePath, spriteWidth, spriteHeight, reg) ==
    [imagePath |-> imagePath, spriteWidth |-> spriteWidth,
     spriteHeight |-> spriteHeight, items |-> <<>>, reg |-> reg]

\* The Image created for it, waiting for its file
NewImage(type, imagePath, spriteWidth, spriteHeight, reg) ==
    [type |-> type, imagePath |-> imagePath, spriteWidth |-> spriteWidth,
     spriteHeight |-> spriteHeight, reg |-> reg, status |-> "pending"]

\* this.sprites[type] = {...}
Store(s, type, info) ==
    [t \in DOMAIN s \cup {type} |-> IF t = type THEN info ELSE s[t]]

NullResult == [kind |-> "null"]
TypeError == [kind |-> "TypeError"]
Descriptor(imagePath, position, color) ==
    [kind |-> "descriptor", imagePath |-> imagePath,
     position |-> position, color |-> color]

\* items[item] of a JavaScript array: undefined outside 0 .. length-1
At(items, item) ==
    IF item \in 0..(Len(items) - 1) THEN <<items[item + 1]>> ELSE <<>>

\* A plausible slip: an unknown type falls back to some registered sheet.
OwnOrInherited_fallback(s, type) ==
    IF type \in DOMAIN s THEN <<s[type]>>
    ELSE IF type \in InheritedNames THEN <<[inherited |-> type]>>
    ELSE IF DOMAIN s # {} THEN <<s[CHOOSE t \in DOMAIN s : TRUE]>>
    ELSE <<>>

\* this.sprites[type] of both getSprite: the registration, or what the
\* prototype of the plain object this.sprites supplies, or undefined
OwnOrInherited(s, type) ==
    IF type \in DOMAIN s THEN <<s[type]>>
    ELSE IF type \in InheritedNames THEN <<[inherited |-> type]>>
    ELSE <<>>

\* SpriteManager.getSprite of game-dev-hub.ejs; an inherited object has no
\* items, so items[item] throws
HubGetSprite(s, req) ==
    LET found == OwnOrInherited(s, req.type)
    IN IF found = <<>> THEN NullResult
       ELSE IF "items" \notin DOMAIN found[1] THEN TypeError
       ELSE IF At(found[1].items, req.item) # <<>>
            THEN Descriptor(found[1].imagePath, At(found[1].items, req.item),
                            IF req.color = <<>> \/ req.color[1] = ""
                            THEN "default" ELSE req.color[1])
            ELSE NullResult

\* SpriteManager.getSprite of builder.js; an inherited object has no items,
\* so items.length throws
BuilderGetSprite(s, req) ==
    LET found == OwnOrInherited(s, req.type)
    IN IF found = <<>> THEN NullResult
       ELSE IF "items" \notin DOMAIN found[1] THEN TypeError
       ELSE IF req.item < Len(found[1].items)
            THEN Descriptor(found[1].imagePath, At(found[1].items, req.item),
                            IF req.color = <<>> THEN "default" ELSE req.color[1])
            ELSE NullResult

\* addSprite of game-dev-hub.ejs with _loadSpriteImage up to img.src
hubAddSprite ==
    /\ manager = "hub"
    /\ adds < MaxAdds
    /\ adds' = adds + 1
    /\ \E type \in SpriteTypes, imagePath \in ImagePaths,
          spriteWidth \in SpriteWidths, spriteHeight \in SpriteHeights :
         /\ sprites' = Store(sprites, type,
                             Registration(imagePath, spriteWidth, spriteHeight, adds'))
         /\ loads' = loads \cup
                {NewImage(type, imagePath, spriteWidth, spriteHeight, adds')}
    /\ UNCHANGED <<manager, request, result>>
    /\ UNCHANGED <<gameVars, boxVars, sheetVars, busVars, entityVars, relayVars>>

\* img.onload of _loadSpriteImage: pushes into this.sprites[type].items,
\* the registration that is current when the image arrives
hubOnload ==
    /\ manager = "hub"
    /\ \E img \in loads :
         /\ img.status = "pending"
         /\ img.imagePath = "sheet.png"
         /\ loads' = (loads \ {img}) \cup {[img EXCEPT !.status = "loaded"]}
         /\ sprites' = [sprites EXCEPT ![img.type].items =
                @ \o HubItems(ImageWidth, ImageHeight, img.spriteWidth, img.spriteHeight)]
    /\ UNCHANGED <<manager, adds, request, result>>
    /\ UNCHANGED <<gameVars, boxVars, sheetVars, busVars, entityVars, relayVars>>

\* img.onerror of _loadSpriteImage: logs
hubOnerror ==
    /\ manager = "hub"
    /\ \E img \in loads :
         /\ img.status = "pending"
         /\ img.imagePath = "missing.png"
         /\ loads' = (loads \ {img}) \cup {[img EXCEPT !.status = "error"]}
    /\ UNCHANGED <<manager, sprites, adds, request, result>>
    /\ UNCHANGED <<gameVars, boxVars, sheetVars, busVars, entityVars, relayVars>>

\* The page calls getSprite(request)
hubGetSprite ==
    /\ manager = "hub"
    /\ result = NoResult
    /\ result' = HubGetSprite(sprites, request)
    /\ UNCHANGED <<manager, sprites, loads, adds, request>>
    /\ UNCHANGED <<gameVars, boxVars, sheetVars, busVars, entityVars, relayVars>>

\* addSprite of builder.js with _createItems up to img.src
builderAddSprite ==
    /\ manager = "builder"
    /\ adds < MaxAdds
    /\ adds' = adds + 1
    /\ \E type \in SpriteTypes, imagePath \in ImagePaths,
          spriteWidth \in SpriteWidths, spriteHeight \in SpriteHeights :
         /\ sprites' = Store(sprites, type,
                             Registration(imagePath, spriteWidth, spriteHeight, adds'))
         /\ loads' = loads \cup
                {NewImage(type, imagePath, spriteWidth, spriteHeight, adds')}
    /\ UNCHANGED <<manager, request, result>>
    /\ UNCHANGED <<gameVars, boxVars, sheetVars, busVars, entityVars, relayVars>>

\* img.onload of _createItems: pushes into the array of its own call, which
\* is reachable only through the registration made by that call
builderOnload ==
    /\ manager = "builder"
    /\ \E img \in loads :
         /\ img.status = "pending"
         /\ img.imagePath = "sheet.png"
         /\ loads' = (loads \ {img}) \cup {[img EXCEPT !.status = "loaded"]}
         /\ sprites' =
              IF sprites[img.type].reg = img.reg
              THEN [sprites EXCEPT ![img.type].items =
                      @ \o BuilderItems(ImageWidth, ImageHeight,
                                        img.spriteWidth, img.spriteHeight)]
              ELSE sprites
    /\ UNCHANGED <<manager, adds, request, result>>
    /\ UNCHANGED <<gameVars, boxVars, sheetVars, busVars, entityVars, relayVars>>

\* The image fails to load; _createItems sets no onerror handler
builderLoadError ==
    /\ manager = "builder"
    /\ \E img \in loads :
         /\ img.status = "pending"
         /\ img.imagePath = "missing.png"
         /\ loads' = (loads \ {img}) \cup {[img EXCEPT !.status = "error"]}
    /\ UNCHANGED <<manager, sprites, adds, request, result>>
    /\ UNCHANGED <<gameVars, boxVars, sheetVars, busVars, entityVars, relayVars>>

\* The page calls getSprite(request)
builderGetSprite ==
    /\ manager = "builder"
    /\ result = NoResult
    /\ result' = BuilderGetSprite(sprites, request)
    /\ UNCHANGED <<manager, sprites, loads, adds, request>>
    /\ UNCHANGED <<gameVars, boxVars, sheetVars, busVars, entityVars, relayVars>>

\* new SpriteManager(), and the request the page is going to make
InitCatalog ==
    /\ manager \in {"hub", "builder"}
    /\ sprites = <<>>
    /\ loads = {}
    /\ adds = 0
    /\ request \in Requests
    /\ result = NoResult
    /\ GameInit
    /\ BoxIdle
    /\ SheetIdle
    /\ BusIdle
    /\ EntityIdle
    /\ RelayIdle

NextCatalog ==
    \/ hubAddSprite
    \/ hubOnload
    \/ hubOnerror
    \/ hubGetSprite
    \/ builderAddSprite
    \/ builderOnload
    \/ builderLoadError
    \/ builderGetSprite

SpecCatalog == InitCatalog /\ [][NextCatalog]_vars

---------------------------------------------------------------------------
(* DevGameMaker.on and DevGameMaker.emit.  A callback is known by its name *)
(* and, when invoked, records itself with the event and the arguments it   *)
(* was given.                                                              *)

EventNames == {"playerHit", "gameOver"} \cup InheritedNames
Callbacks == {"f", "g"}
EmitArgs == {<<>>, <<"enemy">>}

\* this.eventListeners[event]: an own array, or what the prototype of the
\* plain object this.eventListeners supplies, or undefined
ListenersOf(ls, evt) ==
    IF evt \in DOMAIN ls THEN [kind |-> "array", items |-> ls[evt]]
    ELSE IF evt \in InheritedNames THEN [kind |-> "inherited", items |-> <<>>]
    ELSE [kind |-> "undefined", items |-> <<>>]

\* DevGameMaker.on; an inherited member is truthy and has no push
on ==
    /\ Len(onCalls) < MaxOns
    /\ \E evt \in EventNames, callback \in Callbacks :
         LET found == ListenersOf(eventListeners, evt)
         IN /\ onCalls' = Append(onCalls, [event |-> evt, callback |-> callback])
            /\ IF found.kind = "inherited"
               THEN busThrew' = TRUE /\ UNCHANGED eventListeners
               ELSE /\ busThrew' = FALSE
                    /\ eventListeners' =
                         Store(eventListeners, evt, Append(found.items, callback))
    /\ emitted' = NoEmit
    /\ calls' = <<>>
    /\ UNCHANGED <<gameVars, boxVars, sheetVars, catalogVars, entityVars, relayVars>>

\* forEach(callback => callback(...args)) over the first n listeners
RECURSIVE ForEach(_, _, _, _)
ForEach(listeners, n, evt, args) ==
    IF n = 0 THEN <<>>
    ELSE Append(ForEach(listeners, n - 1, evt, args),
                [callback |-> listeners[n], event |-> evt, args |-> args])

\* DevGameMaker.emit; an inherited member is truthy and has no forEach
emitToListeners ==
    /\ \E evt \in EventNames, args \in EmitArgs :
         LET found == ListenersOf(eventListeners, evt)
         IN /\ emitted' = [name |-> evt, args |-> args]
            /\ busThrew' = (found.kind = "inherited")
            /\ calls' = ForEach(found.items, Len(found.items), evt, args)
    /\ UNCHANGED <<eventListeners, onCalls>>
    /\ UNCHANGED <<gameVars, boxVars, sheetVars, catalogVars, entityVars, relayVars>>

\* this.eventListeners = {} of the constructor
InitBus ==
    /\ BusIdle
    /\ GameInit
    /\ BoxIdle
    /\ SheetIdle
    /\ CatalogIdle
    /\ EntityIdle
    /\ RelayIdle

NextBus ==
    \/ on
    \/ emitToListeners

SpecBus == InitBus /\ [][NextBus]_vars

---------------------------------------------------------------------------
(* update on one entity, constructed anywhere in the canvas.  An entity    *)
(* that is no Player gets its velocity from the code that owns it (vel is  *)
(* a plain field); a Player gets it from its move commands.                *)

RightEdge == CanvasWidth - HitboxSize
StartXs == {0, MaxSpeed \div 2, PlayerStartX, RightEdge - MaxSpeed \div 2, RightEdge}
StartYs == {0, PlayerStartY}
XVels == {-CanvasWidth, -MaxSpeed, 0, MaxSpeed, CanvasWidth}
YVels == {-MaxSpeed, 0, MaxSpeed}

\* this.vel = [vx, vy] by the owner of an entity
setVelocity ==
    /\ entKind = "Entity"
    /\ \E vx \in XVels, vy \in YVels :
         ent' = [ent EXCEPT !.vel = <<Scale * vx, Scale * vy>>]
    /\ UNCHANGED <<entKind, updates>>
    /\ UNCHANGED <<gameVars, boxVars, sheetVars, catalogVars, busVars, relayVars>>

\* player.moveLeft(), player.moveRight(), player.jump()
command ==
    /\ entKind = "Player"
    /\ \/ ent' = moveLeft(ent)
       \/ ent' = moveRight(ent)
       \/ ent' = jump(ent)
    /\ UNCHANGED <<entKind, updates>>
    /\ UNCHANGED <<gameVars, boxVars, sheetVars, catalogVars, busVars, relayVars>>

\* entity.update() on an Enemy or PowerUp
entityUpdate ==
    /\ entKind = "Entity"
    /\ updates < MaxUpdates
    /\ updates' = updates + 1
    /\ ent' = EntityUpdate(ent)
    /\ UNCHANGED entKind
    /\ UNCHANGED <<gameVars, boxVars, sheetVars, catalogVars, busVars, relayVars>>

\* player.update()
playerUpdate ==
    /\ entKind = "Player"
    /\ updates < MaxUpdates
    /\ updates' = updates + 1
    /\ ent' = PlayerUpdate(ent)
    /\ UNCHANGED entKind
    /\ UNCHANGED <<gameVars, boxVars, sheetVars, catalogVars, busVars, relayVars>>

\* new Enemy(pos) or new Player(pos)
InitEntity ==
    /\ entKind \in {"Entity", "Player"}
    /\ \E x \in StartXs, y \in StartYs :
         ent = IF entKind = "Player" THEN Player(x, y) ELSE Entity(x, y)
    /\ updates = 0
    /\ GameInit
    /\ BoxIdle
    /\ SheetIdle
    /\ CatalogIdle
    /\ BusIdle
    /\ RelayIdle

NextEntity ==
    \/ setVelocity
    \/ command
    \/ entityUpdate
    \/ playerUpdate

SpecEntity == InitEntity /\ [][NextEntity]_vars

---------------------------------------------------------------------------
(* The relay of app.js.  Socket.IO gives every connection a fresh id and   *)
(* delivers disconnect once, to a connected socket; handlers and timer     *)
(* callbacks run one at a time.  An exception that no handler catches      *)
(* ends the Node process: the players object is gone and every socket is   *)
(* closed.                                                                 *)

Positions == {<<0, 0>>, <<1, 0>>}
Messages == {"hi", "yo"}

\* initializePlayer, with n the incremented connectionCount
initializePlayer(id, n) ==
    [playerId |-> id, connectionNum |-> n,
     gameData |-> [pos |-> <<0, 0>>], chatMessage |-> ""]

\* socket.emit / socket.broadcast.emit: an event, its receivers, its payload
Emitted(name, to, payload) == [event |-> name, to |-> to, payload |-> payload]

\* emitPlayerData, with others the sockets connected besides this one
emitPlayerData(ps, id, others) ==
    << Emitted("currentPlayer", {id}, ps[id]),
       Emitted("existingPlayers", {id}, {ps[t] : t \in DOMAIN ps}),
       Emitted("newPlayer", others, ps[id]) >>

\* delete players[id]
Delete(ps, id) == [t \in DOMAIN ps \ {id} |-> ps[t]]

\* setTimeout(..., 30000) of handlePlayerChat, as a pending timer of socket id
ChatTimer(id) == [id |-> id, elapsed |-> 0]

handleConnection ==
    /\ relayUp
    /\ connectionCount < MaxConnections
    /\ connectionCount' = connectionCount + 1
    /\ LET id == ToString(connectionCount')
       IN /\ players' = Store(players, id, initializePlayer(id, connectionCount'))
          /\ connected' = connected \cup {id}
          /\ sent' = emitPlayerData(players', id, connected)
    /\ UNCHANGED <<relayUp, chatTimers, chatPeers, chats>>
    /\ UNCHANGED <<gameVars, boxVars, sheetVars, catalogVars, busVars, entityVars>>

handlePlayerMovement ==
    /\ relayUp
    /\ \E id \in connected, pos \in Positions :
         /\ players' = [players EXCEPT ![id].gameData.pos = pos]
         /\ sent' = <<Emitted("playerMoved", connected \ {id}, players'[id])>>
    /\ UNCHANGED <<relayUp, connected, connectionCount, chatTimers, chatPeers, chats>>
    /\ UNCHANGED <<gameVars, boxVars, sheetVars, catalogVars, busVars, entityVars>>

handlePlayerChat ==
    /\ relayUp
    /\ chats < MaxChats
    /\ chats' = chats + 1
    /\ \E id \in connected, message \in Messages :
         /\ players' = [players EXCEPT ![id].chatMessage = message]
         /\ chatTimers' = Append(chatTimers, ChatTimer(id))
         /\ chatPeers' = Append(chatPeers, connected \ {id})
         /\ sent' = <<Emitted("chatUpdate", connected \ {id},
                              [playerId |-> id, chatMessage |-> message])>>
    /\ UNCHANGED <<relayUp, connected, connectionCount>>
    /\ UNCHANGED <<gameVars, boxVars, sheetVars, catalogVars, busVars, entityVars>>

\* A plausible slip: the peers are told, the entry is kept.
handlePlayerDisconnect_noDelete ==
    /\ relayUp
    /\ \E id \in connected :
         /\ connected' = connected \ {id}
         /\ sent' = <<Emitted("playerDisconnected", connected \ {id}, [playerId |-> id])>>
    /\ UNCHANGED <<relayUp, players, connectionCount, chatTimers, chatPeers, chats>>
    /\ UNCHANGED <<gameVars, boxVars, sheetVars, catalogVars, busVars, entityVars>>

handlePlayerDisconnect ==
    /\ relayUp
    /\ \E id \in connected :
         /\ players' = Delete(players, id)
         /\ connected' = connected \ {id}
         /\ sent' = <<Emitted("playerDisconnected", connected \ {id}, [playerId |-> id])>>
    /\ UNCHANGED <<relayUp, connectionCount, chatTimers, chatPeers, chats>>
    /\ UNCHANGED <<gameVars, boxVars, sheetVars, catalogVars, busVars, entityVars>>

\* The timeout callback of handlePlayerChat; timers fire in the order they
\* were set, all having the same delay.  players[id] of a deleted entry is
\* undefined, and assigning its chatMessage throws.
chatTimeout ==
    /\ relayUp
    /\ chatTimers # <<>>
    /\ chatTimers[1].elapsed = ChatClearMs
    /\ LET id == chatTimers[1].id
       IN IF id \in DOMAIN players
          THEN /\ players' = [players EXCEPT ![id].chatMessage = ""]
               /\ sent' = <<Emitted("chatUpdate", {id} \cap connected,
                                    [playerId |-> id, chatMessage |-> ""])>>
               /\ chatTimers' = Tail(chatTimers)
               /\ chatPeers' = Tail(chatPeers)
               /\ UNCHANGED <<relayUp, connected>>
          ELSE /\ relayUp' = FALSE
               /\ players' = <<>>
               /\ connected' = {}
               /\ chatTimers' = <<>>
               /\ chatPeers' = <<>>
               /\ sent' = <<>>
    /\ UNCHANGED <<connectionCount, chats>>
    /\ UNCHANGED <<gameVars, boxVars, sheetVars, catalogVars, busVars, entityVars>>

\* Time passes on the relay, never beyond the moment a chat timer is due
relayAdvanceTime ==
    /\ relayUp
    /\ chatTimers # <<>>
    /\ chatTimers[1].elapsed < ChatClearMs
    /\ LET left == ChatClearMs - chatTimers[1].elapsed
           d == IF left < ChatStep THEN left ELSE ChatStep
       IN chatTimers' = [i \in DOMAIN chatTimers |->
                           [chatTimers[i] EXCEPT !.elapsed = @ + d]]
    /\ UNCHANGED <<relayUp, connected, players, connectionCount, chatPeers,
                   chats, sent>>
    /\ UNCHANGED <<gameVars, boxVars, sheetVars, catalogVars, busVars, entityVars>>

\* const players = {}; let connectionCount = 0
InitRelay ==
    /\ RelayIdle
    /\ GameInit
    /\ BoxIdle
    /\ SheetIdle
    /\ CatalogIdle
    /\ BusIdle
    /\ EntityIdle

NextRelay ==
    \/ handleConnection
    \/ handlePlayerMovement
    \/ handlePlayerChat
    \/ handlePlayerDisconnect
    \/ chatTimeout
    \/ relayAdvanceTime

SpecRelay == InitRelay /\ [][NextRelay]_vars

---------------------------------------------------------------------------
(* Properties *)

\* Two axis-aligned boxes overlap with positive extent on both axes.
Overlaps(a, b) ==
    /\ a[1] < b[1] + b[3] /\ b[1] < a[1] + a[3]
    /\ a[2] < b[2] + b[4] /\ b[2] < a[2] + a[4]

\* C1: isCollideWith returns true iff the two boxes overlap with positive
\* extent on both axes; boxes sharing only an edge or a corner do not collide.
C1_CollideIffOverlap ==
    called => (hitAB <=> Overlaps(boxA, boxB))

\* C2: the collision test is symmetric: a.isCollideWith(b) equals
\* b.isCollideWith(a) for every pair of hitboxes.
C2_CollideSymmetric ==
    called => (hitAB = hitBA)

C2_Witness ==
    /\ called
    /\ boxA # boxB
    /\ boxA[1] # boxB[1] /\ boxA[3] # boxB[3]
    /\ hitAB

\* C3: a player-versus-enemy check takes exactly one life when the player
\* overlaps the enemy, the enemy is not dying and the player is not
\* invincible, and leaves lives unchanged otherwise.
C3_LivesPerCheck ==
    [][pc = "enemy" =>
         IF /\ Overlaps(player.hitbox, enemies[idx].hitbox)
            /\ ~enemies[idx].dying
            /\ ~player.invincibility
         THEN playerLives' = playerLives - 1
         ELSE playerLives' = playerLives]_vars

\* C4: when a check brings lives to 0, gameOver is emitted and followed at
\* once by gameRestarted, inside that check; lives is never 0 between
\* callbacks.
C4_GameOverThenRestart ==
    /\ [][pc = "gameOver" =>
            /\ trace' = trace \o <<"gameOver", "gameRestarted">>
            /\ pc' # "idle"]_vars
    /\ [](pc = "idle" => playerLives # 0)

\* A step that calls restartGame: the game-over branch, or KeyR while running
RestartTriggered ==
    \/ pc = "gameOver"
    \/ pc = "idle" /\ keys' = keys + 1 /\ event' = "KeyR" /\ ~isPaused

\* C5: every restart, with or without a current map, completes with lives 3,
\* score 0, the controller running and gameRestarted emitted.
C5_RestartCompletes ==
    [][RestartTriggered =>
         /\ playerLives' = InitialLives
         /\ score' = 0
         /\ ~isPaused'
         /\ trace' # <<>>
         /\ trace'[Len(trace')] = "gameRestarted"]_vars

\* C6: the togglePause command delivered through the input handler moves a
\* running controller to paused and a paused controller back to running.
C6_ToggleBothWays ==
    [][(pc = "idle" /\ keys' = keys + 1 /\ event' = "Escape") =>
         isPaused' = ~isPaused]_vars

\* C7: a frame callback delivered while paused changes no entity position or
\* velocity, no lives, no score, and removes no entity.
C7_PausedFrameIsInert ==
    [][(pc = "idle" /\ isPaused /\ rafPending = 1 /\ rafPending' = 0) =>
         UNCHANGED <<enemies, powerUps, player, playerLives, score>>]_vars

C7_Witness ==
    /\ pc = "idle"
    /\ isPaused
    /\ event = "frame"
    /\ rafPending = 0
    /\ Len(enemies) > 0
    /\ Len(powerUps) > 0

\* C8: a power-up destroyed during a tick stays in powerUps until the tick's
\* cleanup sweep, and is absent from powerUps once that sweep has run.
C8_SweepRemovesDestroyed ==
    /\ [][Len(powerUps') < Len(powerUps) => pc = "cleanup"]_vars
    /\ [](pc = "schedule" => \A i \in DOMAIN powerUps : ~powerUps[i].dying)

\* The step in which the player collects an invincibility power-up
ActivatesInvincibility ==
    /\ pc = "powerUp"
    /\ isCollideWith(player.hitbox, powerUps[idx].hitbox)
    /\ powerUps[idx].type = "invincibility"

\* C9: activating an invincibility power-up sets player.invincibility and
\* registers a 5000ms timeout; while the flag is set such a timeout is
\* pending, and the flag is cleared only by a timeout that has run its full
\* 5000ms, without any command.
C9_InvincibilityExpires ==
    /\ [][ActivatesInvincibility =>
            /\ player'.invincibility
            /\ timers' = Append(timers, [delay |-> InvincibilityMs, elapsed |-> 0])]_vars
    /\ [](player.invincibility => timers # <<>>)
    /\ [][(player.invincibility /\ ~player'.invincibility) =>
            /\ event' = "timeout"
            /\ timers # <<>>
            /\ timers[1].elapsed = InvincibilityMs
            /\ timers' = Tail(timers)]_vars

C9_Witness ==
    /\ event = "timeout"
    /\ ~player.invincibility
    /\ timers = <<>>
    /\ frames = 1
    /\ \E i \in DOMAIN powerUps :
         powerUps[i].dying /\ powerUps[i].type = "invincibility"

\* The row-major tile grid of a W by H sheet cut into tw by th tiles
IsTileGrid(items, W, H, tw, th) ==
    LET cols == W \div tw
    IN /\ Len(items) = cols * (H \div th)
       /\ \A k \in 1..Len(items) :
            /\ items[k].index = k - 1
            /\ items[k].x = ((k - 1) % cols) * tw
            /\ items[k].y = ((k - 1) \div cols) * th

\* C10: in both sprite managers, a loaded W by H sheet with tw by th tiles has
\* floor(W/tw)*floor(H/th) tiles, tile i at x = (i mod cols)*tw,
\* y = floor(i/cols)*th with cols = floor(W/tw).
C10_TileGrid ==
    /\ loadedHub => IsTileGrid(itemsHub, sheet[1], sheet[2], sheet[3], sheet[4])
    /\ loadedBuilder => IsTileGrid(itemsBuilder, sheet[1], sheet[2], sheet[3], sheet[4])

\* A step that is the getSprite call
GetSpriteCalled == result' # result

\* The image of the current registration of a type has loaded
Loaded(type) ==
    \E img \in loads : img.reg = sprites[type].reg /\ img.status = "loaded"

\* The request names a registered type whose image has loaded and an index
\* among its tiles
ValidRequest(req) ==
    /\ req.type \in DOMAIN sprites
    /\ Loaded(req.type)
    /\ req.item \in 0..(Len(sprites[req.type].items) - 1)

\* C11: getSprite returns a descriptor exactly when the type is registered,
\* its image has loaded and the index is one of its tiles; in every other
\* case it returns null; a descriptor always carries a defined position.
C11_DescriptorIffValid ==
    [][GetSpriteCalled =>
         /\ (result'.kind = "descriptor") <=> ValidRequest(request')
         /\ ~ValidRequest(request') => result' = NullResult
         /\ result'.kind = "descriptor" => result'.position # <<>>]_vars

\* C12: getSprite on a type that was never registered never returns a
\* descriptor, whatever the index, the color and the catalog.
C12_UnknownTypeNoDescriptor ==
    [][(GetSpriteCalled /\ request'.type \notin DOMAIN sprites) =>
         result'.kind # "descriptor"]_vars

C12_Witness ==
    /\ result = NullResult
    /\ request.type \in SpriteTypes \ DOMAIN sprites
    /\ request.color # <<>>
    /\ \E t \in DOMAIN sprites : At(sprites[t].items, request.item) # <<>>

\* C13: once every image requested for a type has loaded, in whatever
\* order, the tile list of the type is exactly the grid of its most recent
\* registration.
C13_ReRegistrationOverwrites ==
    \A type \in DOMAIN sprites :
        (\A img \in loads : img.type = type => img.status = "loaded") =>
            IsTileGrid(sprites[type].items, ImageWidth, ImageHeight,
                       sprites[type].spriteWidth, sprites[type].spriteHeight)


\* C14: emit(name, args) invokes, before it returns, every callback
\* registered with on(name, ...) once per registration, in registration
\* order and with those arguments, and no callback of another name; an emit
\* for a name without callbacks does nothing.
C14_EmitInvokesInOrder ==
    [][emitted' # NoEmit =>
         LET registered == SelectSeq(onCalls, LAMBDA c : c.event = emitted'.name)
         IN /\ ~busThrew'
            /\ calls' = [i \in DOMAIN registered |->
                           [callback |-> registered[i].callback,
                            event |-> emitted'.name, args |-> emitted'.args]]]_vars

\* A step that is an update call on the entity
UpdateCalled == updates' = updates + 1

\* C15: after every update step the origin of the hitbox is the current
\* position of the entity.
C15_HitboxFollowsPosition ==
    [][UpdateCalled =>
         /\ Scale * ent'.hitbox[1] = ent'.pos[1]
         /\ Scale * ent'.hitbox[2] = ent'.pos[2]]_vars

\* C16: after any update step, for any velocity, the horizontal position
\* lies in 0 .. canvasWidth - hitboxWidth, and the vertical position is the
\* old one plus the vertical velocity, unclamped.
C16_HorizontalClampOnly ==
    [][UpdateCalled =>
         /\ 0 <= ent'.pos[1]
         /\ ent'.pos[1] <= Scale * (CanvasWidth - ent'.hitbox[3])
         /\ ent'.pos[2] = ent.pos[2] + ent.vel[2]]_vars

C16_Witness ==
    /\ entKind = "Entity"
    /\ updates > 0
    /\ ent.vel[1] = Scale * CanvasWidth
    /\ ent.pos[1] = Scale * RightEdge
    /\ ent.pos[2] < 0

\* Where a horizontal position ends up after clamping to the canvas
ClampX(x) ==
    IF x < 0 THEN 0 ELSE IF x > Scale * RightEdge THEN Scale * RightEdge ELSE x

\* C17: after every Player update step the horizontal velocity is 0; the
\* step displaces the player by the 5 pixels of a move command issued
\* since the previous step, clamped to the canvas, and not at all when no
\* move command was issued.
C17_MoveLastsOneTick ==
    [][(UpdateCalled /\ entKind = "Player") =>
         /\ ent'.vel[1] = 0
         /\ ent.vel[1] \in {-(Scale * MoveSpeed), 0, Scale * MoveSpeed}
         /\ ent'.pos[1] = ClampX(ent.pos[1] + ent.vel[1])
         /\ ent.vel[1] = 0 => ent'.pos[1] = ent.pos[1]]_vars

C17_Witness ==
    /\ entKind = "Player"
    /\ updates = 2
    /\ ent.vel[1] = 0
    /\ ent.pos[1] = Scale * (PlayerStartX + MoveSpeed)

\* C18: after any sequence of connections and disconnections, players holds
\* one entry for every connected socket, under its id, and none for a
\* socket that has disconnected.
C18_PlayersAreTheConnected ==
    /\ DOMAIN players = connected
    /\ \A id \in DOMAIN players : players[id].playerId = id

C18_Witness ==
    /\ relayUp
    /\ connectionCount = MaxConnections
    /\ Cardinality(connected) = 1
    /\ DOMAIN players = connected

\* How long ago the message stored for a socket was sent: the time run by
\* the timer set with it, the newest timer of that socket
MessageAge(id) ==
    LET own == SelectSeq(chatTimers, LAMBDA t : t.id = id)
    IN own[Len(own)].elapsed

\* C19: a stored chat message is cleared 30 seconds after it was sent and
\* not earlier, also when an earlier message of the same player is less
\* than 30 seconds older.
C19_ClearedAfter30s ==
    [][\A id \in DOMAIN players \cap DOMAIN players' :
         (players[id].chatMessage # "" /\ players'[id].chatMessage = "") =>
             MessageAge(id) = ChatClearMs]_vars

\* C20: a tick that runs updates all entities, then checks every enemy,
\* then every power-up, then renders, then sweeps, then schedules one next
\* tick; it returns only after that, and no other callback runs in between.
C20_TickOrder ==
    [][/\ (pc = "idle" /\ pc' # "idle") =>
            /\ ~isPaused /\ event' = "frame"
            /\ rafPending = 1 /\ rafPending' = 0
            /\ player' = PlayerUpdate(player)
            /\ enemies' = [i \in DOMAIN enemies |-> EntityUpdate(enemies[i])]
            /\ powerUps' = [i \in DOMAIN powerUps |-> EntityUpdate(powerUps[i])]
            /\ pc' \in {"enemy", "powerUp", "render"}
            /\ pc' = "enemy" <=> enemies # <<>>
       /\ pc \in {"enemy", "gameOver"} =>
            /\ pc' \in {"enemy", "gameOver", "powerUp", "render"}
            /\ pc' = "enemy" => idx' = idx + 1
            /\ pc' \in {"powerUp", "render"} => idx = Len(enemies)
            /\ pc' = "render" => powerUps = <<>>
       /\ pc = "powerUp" =>
            /\ pc' \in {"powerUp", "render"}
            /\ pc' = "powerUp" => idx' = idx + 1
            /\ pc' = "render" => idx = Len(powerUps)
       /\ pc = "render" => pc' = "cleanup"
       /\ pc = "cleanup" => pc' = "schedule"
       /\ pc = "schedule" => (pc' = "idle" /\ rafPending = 0 /\ rafPending' = 1)
       /\ pc \notin {"idle", "schedule"} => rafPending' = 0
       /\ pc # "idle" => UNCHANGED <<event, keys, frames>>]_vars

\* C21: whenever the controller is running, a frame callback is pending or
\* a tick is in progress, also after it was paused across a frame callback
\* and then set running again by togglePause or restartGame.
C21_RunningHasTick ==
    ~isPaused => (rafPending = 1 \/ pc # "idle")

\* The step in which the player collects the power-up under check
CollectsPowerUp ==
    pc = "powerUp" /\ isCollideWith(player.hitbox, powerUps[idx].hitbox)

\* C22: a player-versus-power-up collision activates the power-up and
\* destroys it, whether or not the player is invincible, and a power-up
\* collected in one tick is not activated again in a later tick.
C22_PowerUpAppliedOnce ==
    [][CollectsPowerUp =>
         /\ trace' = trace \o <<"playerPowerUp", "destroyed">>
         /\ powerUps'[idx].dying
         /\ powerUps[idx].type = "invincibility" => player'.invincibility
         /\ ~powerUps[idx].dying]_vars

\* C23: when the invincibility flag is cleared, 5000ms have passed since
\* the latest activation: no later window is still open.
C23_FullWindow ==
    [][(player.invincibility /\ ~player'.invincibility) =>
         timers[Len(timers)].elapsed = InvincibilityMs]_vars

\* The step in which the oldest chat timeout fires
ChatTimerFires ==
    /\ chatTimers # <<>>
    /\ chatTimers[1].elapsed = ChatClearMs
    /\ Len(chatTimers') < Len(chatTimers)

\* C24: a chat timeout that fires after its connection has disconnected
\* completes without fault and leaves the players mapping as it was.
C24_LateTimerHarmless ==
    [][(ChatTimerFires /\ chatTimers[1].id \notin DOMAIN players) =>
         (relayUp' /\ players' = players)]_vars

\* C25: when a chat message is cleared by its timeout, every peer that was
\* sent the message and is still connected is sent the chatUpdate with the
\* empty message for that player.
C25_PeersToldOfClear ==
    [][(ChatTimerFires /\ chatTimers[1].id \in DOMAIN players) =>
         \A peer \in chatPeers[1] \cap connected :
           \E i \in DOMAIN sent' :
             /\ sent'[i].event = "chatUpdate"
             /\ sent'[i].payload = [playerId |-> chatTimers[1].id, chatMessage |-> ""]
             /\ peer \in sent'[i].to]_vars

====
